---- MODULE Spec2Model ----
(***************************************************************************)
(* PhishAlert (src/app.py): a Flask application that classifies a          *)
(* submitted URL as Phishing or Legitimate behind a reCAPTCHA gate, caches *)
(* the rendered result per raw URL string for 3600 seconds, and keeps a    *)
(* table of contact messages.                                              *)
(*                                                                         *)
(* Python dicts (cookies, form data, template context, the cache store)    *)
(* are functions from strings; an optional value (dict.get, cache.get) is  *)
(* a sequence of length 0 (None) or 1.                                     *)
(***************************************************************************)
EXTENDS Integers, Sequences, FiniteSets, TLC

-----------------------------------------------------------------------------
(* Bounds of the model *)

\* the clock advances MaxTicks times, TickSeconds seconds at a time
MaxTicks == 2
TickSeconds == 2400
\* probabilities are fixed-point numbers: p stands for p / ProbScale
ProbScale == 1000
\* rows the contact table may hold at once
MaxContacts == 2

\* worker contexts that run detect_phishing concurrently
Workers == {1, 2}
\* two raw strings of one logical URL
URLs == {"http://a.test", "http://a.test/"}
\* classifiers that models/feature_model.joblib may hold: a URL's phishing
\* probability is on the threshold or one step above it, and the two
\* strings of the URL are told apart
Models ==
    { m \in [URLs -> {ProbScale \div 2, (ProbScale \div 2) + 1}] :
          m["http://a.test"] < m["http://a.test/"] }
\* values the client's recaptcha_verified cookie may hold before any visit
StaleCookieValues == {"false"}
Tokens == {"", "tok"}

-----------------------------------------------------------------------------
(* Python values *)

EmptyDict == [k \in {} |-> ""]
None == <<>>
Some(v) == <<v>>

\* dict.get(key): None when the key is absent
DictGet(d, key) == IF key \in DOMAIN d THEN Some(d[key]) ELSE None

\* truth value of an optional string: None and "" are falsy
Truthy(opt) == opt # None /\ opt # Some("")

\* truth value of an optional rendered page or JSON boolean: a rendered page
\* is never the empty string
TruthyValue(opt) == opt # None /\ opt # Some(FALSE)

-----------------------------------------------------------------------------
(* Responses *)

NoPage == [template |-> "", ctx |-> EmptyDict]

render_template(template, ctx) == [template |-> template, ctx |-> ctx]

PageResponse(page) ==
    [status |-> 200, body |-> page, location |-> None, set_cookie |-> EmptyDict]

redirect(location) ==
    [status |-> 302, body |-> NoPage, location |-> Some(location),
     set_cookie |-> EmptyDict]

\* werkzeug aborts the request: 400 for a missing form key, 404 for
\* get_or_404, 500 for an exception no handler catches
abort(status) ==
    [status |-> status, body |-> NoPage, location |-> None, set_cookie |-> EmptyDict]

Call(fn, arg, ret) == [fn |-> fn, arg |-> arg, ret |-> ret]

-----------------------------------------------------------------------------
(* State *)

VARIABLES
    now,            \* wall clock, seconds
    reach,          \* what a GET to the target site gives right now
    feature_model,  \* the loaded classifier: URL -> phishing probability
    cache,          \* the Flask-Caching store: key -> [value, expires]
    jar,            \* the client's cookies
    workers,        \* detect_phishing requests in flight
    contacts,       \* rows of the Contact table
    last,           \* the request served last: request, response, calls made
    cache_log       \* cache.set calls of the last hour, per key, oldest first

vars == <<now, reach, feature_model, cache, jar, workers, contacts, last, cache_log>>

-----------------------------------------------------------------------------
(* Collaborators: the target site, the classifier, the cache store *)

\* requests.get(url, timeout=5) raises a RequestException or returns a
\* response with a status code
Outcomes ==
    { [raises |-> TRUE,  status_code |-> 0],
      [raises |-> FALSE, status_code |-> 200],
      [raises |-> FALSE, status_code |-> 404] }

\* feature_model.predict_proba([url])[0]: the phishing and the legitimate
\* probability, which sum to one
predict_proba(model, url) == <<model[url], ProbScale - model[url]>>

\* labels feature_model.predict may return
Labels == {-1, 1}

\* (mutant) a digit of the timeout is lost
CacheTimeoutShort == 3600 \div 10

\* timeout=3600 of cache.set
CacheTimeout == 3600

\* (mutant) the key is the URL without its trailing slash
CacheKeyNormalized(url) == IF url = "http://a.test/" THEN "http://a.test" ELSE url

\* the key of a URL's entry: the form value as submitted
CacheKey(url) == url

\* (mutant) the test of the expiry is turned around
CacheGetInverted(store, key, time) ==
    IF key \in DOMAIN store /\ store[key].expires <= time
    THEN Some(store[key].value)
    ELSE None

\* cache.get(key): the stored value while the entry has not expired
CacheGet(store, key, time) ==
    IF key \in DOMAIN store /\ store[key].expires >= time
    THEN Some(store[key].value)
    ELSE None

\* (mutant) cache.add: an entry that is there is kept
CacheAdd(store, key, value, timeout, time) ==
    [k \in DOMAIN store \cup {key} |->
        IF k \in DOMAIN store THEN store[k]
        ELSE [value |-> value, expires |-> time + timeout]]

\* (mutant) the store is cleared before the entry is written
CacheSetCleared(store, key, value, timeout, time) ==
    [k \in {key} |-> [value |-> value, expires |-> time + timeout]]

\* cache.set(key, value, timeout): the entry replaces any entry of the key
CacheSet(store, key, value, timeout, time) ==
    [k \in DOMAIN store \cup {key} |->
        IF k = key THEN [value |-> value, expires |-> time + timeout]
        ELSE store[k]]

\* the store evicts the entries that have expired
CacheEvict(store, time) ==
    [k \in {x \in DOMAIN store : store[x].expires >= time} |-> store[k]]

-----------------------------------------------------------------------------
(* History: the cache.set calls of the last hour *)

Hour == 3600

LogAppend(log, key, value, time) ==
    [log EXCEPT ![key] = Append(@, [value |-> value, at |-> time])]

LogPrune(log, time) ==
    [k \in DOMAIN log |->
        SelectSeq(log[k], LAMBDA w : time - w.at < Hour)]

-----------------------------------------------------------------------------
(* Initial state *)

IdleWorker == [pc |-> "idle", url |-> "", response |-> None, calls |-> <<>>]

NoRequest ==
    [request  |-> [route |-> "", method |-> "", cookies |-> EmptyDict,
                   form |-> EmptyDict],
     response |-> abort(0),
     calls    |-> <<>>]

Served(route, method, cookies, form, response, calls) ==
    [request  |-> [route |-> route, method |-> method, cookies |-> cookies,
                   form |-> form],
     response |-> response,
     calls    |-> calls]

Init ==
    /\ now = 0
    /\ reach \in Outcomes
    /\ feature_model \in Models
    /\ cache = EmptyDict
    /\ jar \in {EmptyDict} \cup {[recaptcha_verified |-> v] : v \in StaleCookieValues}
    /\ workers = [w \in Workers |-> IdleWorker]
    /\ contacts = {}
    /\ last = NoRequest
    /\ cache_log = [u \in URLs |-> <<>>]

-----------------------------------------------------------------------------
(* Environment *)

\* time passes; the store drops what has expired
Tick ==
    /\ now < MaxTicks * TickSeconds
    /\ now' = now + TickSeconds
    /\ cache' = CacheEvict(cache, now')
    /\ cache_log' = LogPrune(cache_log, now')
    /\ UNCHANGED <<reach, feature_model, jar, workers, contacts, last>>

\* the target site goes up or down
SiteChange ==
    /\ reach' \in Outcomes \ {reach}
    /\ UNCHANGED <<now, feature_model, cache, jar, workers, contacts, last, cache_log>>

-----------------------------------------------------------------------------
(* detect_phishing: route / *)

\* (mutant) the gate only asks whether the cookie is there
IsVerifiedAnyValue(cookies) == DictGet(cookies, "recaptcha_verified") # None

\* request.cookies.get('recaptcha_verified') == 'true'
IsVerified(cookies) == DictGet(cookies, "recaptcha_verified") = Some("true")

\* threshold = 50, in percent
threshold == 50

\* (mutant) the comparison with the threshold is not strict
FinalPredInclusive(confidence_phishing_feature) ==
    IF confidence_phishing_feature >= threshold * ProbScale THEN -1 ELSE 1

\* final_pred = -1 if confidence_phishing_feature > threshold else 1
FinalPred(confidence_phishing_feature) ==
    IF confidence_phishing_feature > threshold * ProbScale THEN -1 ELSE 1

\* result = "Phishing" if final_pred == -1 else "Legitimate"
ResultOf(final_pred) == IF final_pred = -1 THEN "Phishing" ELSE "Legitimate"

\* (mutant) the unreachable target gets the other label
UnreachableVerdictFailOpen ==
    [result |-> "Legitimate",
     confidence_phishing_feature |-> 0,
     confidence_legitimate_feature |-> 100 * ProbScale,
     calls |-> <<>>]

\* a target that raised or answered another status than 200 is phishing
\* with confidence 100.0 and 0.0
UnreachableVerdict ==
    [result |-> "Phishing",
     confidence_phishing_feature |-> 100 * ProbScale,
     confidence_legitimate_feature |-> 0,
     calls |-> <<>>]

\* (mutant) both confidences are read from the same element
ModelVerdictSameIndex(model, url, feature_pred) ==
    LET feature_confidence == predict_proba(model, url)
        confidence_phishing_feature == feature_confidence[1] * 100
        confidence_legitimate_feature == feature_confidence[1] * 100
    IN  [result |-> ResultOf(FinalPred(confidence_phishing_feature)),
         confidence_phishing_feature |-> confidence_phishing_feature,
         confidence_legitimate_feature |-> confidence_legitimate_feature,
         calls |-> << Call("predict", url, None),
                      Call("predict_proba", url, Some(feature_confidence)) >>]

\* (mutant) the label is the one predict returned
ModelVerdictFromPredict(model, url, feature_pred) ==
    LET feature_confidence == predict_proba(model, url)
        confidence_phishing_feature == feature_confidence[1] * 100
        confidence_legitimate_feature == feature_confidence[2] * 100
    IN  [result |-> ResultOf(feature_pred),
         confidence_phishing_feature |-> confidence_phishing_feature,
         confidence_legitimate_feature |-> confidence_legitimate_feature,
         calls |-> << Call("predict", url, None),
                      Call("predict_proba", url, Some(feature_confidence)) >>]

\* status 200: the classifier decides
ModelVerdict(model, url, feature_pred) ==
    LET feature_confidence == predict_proba(model, url)
        confidence_phishing_feature == feature_confidence[1] * 100
        confidence_legitimate_feature == feature_confidence[2] * 100
    IN  [result |-> ResultOf(FinalPred(confidence_phishing_feature)),
         confidence_phishing_feature |-> confidence_phishing_feature,
         confidence_legitimate_feature |-> confidence_legitimate_feature,
         calls |-> << Call("predict", url, None),
                      Call("predict_proba", url, Some(feature_confidence)) >>]

\* (mutant) any status of the target counts as live
IsLiveAnyStatus(response) == ~response.raises

\* whether the liveness response lets the classifier run
IsLive(response) == ~response.raises /\ response.status_code = 200

\* (mutant) the classifier is asked before the status is looked at
VerdictModelFirst(model, url, response, feature_pred) ==
    LET asked == ModelVerdict(model, url, feature_pred)
    IN  IF IsLive(response)
        THEN asked
        ELSE [UnreachableVerdict EXCEPT !.calls = asked.calls]

\* the try block of detect_phishing, after requests.get has answered
Verdict(model, url, response, feature_pred) ==
    IF IsLive(response)
    THEN ModelVerdict(model, url, feature_pred)
    ELSE UnreachableVerdict

ResultPage(url, verdict) ==
    render_template("index.html",
        [url |-> url,
         result |-> verdict.result,
         confidence_phishing_feature |-> verdict.confidence_phishing_feature,
         confidence_legitimate_feature |-> verdict.confidence_legitimate_feature])

\* the request arrives: the gate, the method, the form field, the cache
DetectPhishing(w, method, form) ==
    /\ workers[w].pc = "idle"
    /\ IF ~IsVerified(jar)
       THEN /\ last' = Served("/", method, jar, form, redirect("/verify_recaptcha"), <<>>)
            /\ UNCHANGED workers
       ELSE IF method # "POST"
       THEN /\ last' = Served("/", method, jar, form,
                              PageResponse(render_template("index.html", EmptyDict)), <<>>)
            /\ UNCHANGED workers
       ELSE IF "url" \notin DOMAIN form
       THEN /\ last' = Served("/", method, jar, form, abort(400), <<>>)
            /\ UNCHANGED workers
       ELSE LET url == form["url"]
                cached_result == CacheGet(cache, CacheKey(url), now)
                got == <<Call("cache.get", url, cached_result)>>
            IN  IF cached_result # None
                THEN /\ last' = Served("/", method, jar, form,
                                       PageResponse(cached_result[1]), got)
                     /\ UNCHANGED workers
                ELSE /\ workers' = [workers EXCEPT ![w] =
                            [pc |-> "liveness", url |-> url, response |-> None,
                             calls |-> got]]
                     /\ UNCHANGED last
    /\ UNCHANGED <<now, reach, feature_model, cache, jar, contacts, cache_log>>

\* requests.get(url, timeout=5) answers or raises
LivenessCheck(w) ==
    /\ workers[w].pc = "liveness"
    /\ workers' = [workers EXCEPT ![w] =
            [@ EXCEPT !.pc = "classify",
                      !.response = Some(reach),
                      !.calls = Append(@, Call("requests.get", workers[w].url, Some(reach)))]]
    /\ UNCHANGED <<now, reach, feature_model, cache, jar, contacts, last, cache_log>>

\* the verdict, the rendered page, cache.set and the response
ClassifyAndCache(w, feature_pred) ==
    /\ workers[w].pc = "classify"
    /\ LET url == workers[w].url
           verdict == Verdict(feature_model, url, workers[w].response[1], feature_pred)
           cached_render == ResultPage(url, verdict)
       IN  /\ cache' = CacheSet(cache, CacheKey(url), cached_render, CacheTimeout, now)
           /\ cache_log' = LogAppend(cache_log, CacheKey(url), cached_render, now)
           /\ last' = Served("/", "POST", [recaptcha_verified |-> "true"],
                             [url |-> url], PageResponse(cached_render),
                             workers[w].calls \o verdict.calls \o
                             << Call("render_template", url, None),
                                Call("cache.set", url, Some(cached_render)) >>)
    /\ workers' = [workers EXCEPT ![w] = IdleWorker]
    /\ UNCHANGED <<now, reach, feature_model, jar, contacts>>

-----------------------------------------------------------------------------
(* verify_recaptcha: route /verify_recaptcha *)

\* what requests.post to the siteverify endpoint gives: an exception, or a
\* response with ok (status below 400) and a JSON body
SiteverifyReplies ==
    { [raises |-> TRUE,  ok |-> FALSE, json |-> EmptyDict],
      [raises |-> FALSE, ok |-> FALSE, json |-> EmptyDict],
      [raises |-> FALSE, ok |-> TRUE,  json |-> EmptyDict],
      [raises |-> FALSE, ok |-> TRUE,  json |-> [success |-> FALSE]],
      [raises |-> FALSE, ok |-> TRUE,  json |-> [success |-> TRUE]] }

\* (mutant) the success field of the result is not looked at
SucceededAlways(result) == TRUE

\* result.get('success')
Succeeded(result) == TruthyValue(DictGet(result, "success"))

ErrorPage(error) == render_template("verification.html", [error |-> error])

\* (mutant) the cookie is set to Python's True
VerifiedResponseCapital ==
    [redirect("/") EXCEPT !.set_cookie = [recaptcha_verified |-> "True"]]

\* resp.set_cookie('recaptcha_verified', 'true') on the redirect to /
VerifiedResponse ==
    [redirect("/") EXCEPT !.set_cookie = [recaptcha_verified |-> "true"]]

\* (mutant) a verification that failed takes the cookie back
VerifyRecaptchaResultRevoking(method, form, reply) ==
    IF method = "POST"
    THEN LET token == DictGet(form, "g-recaptcha-response")
             posted == <<Call("requests.post", token, Some(reply))>>
         IN  IF ~Truthy(token)
             THEN [response |-> PageResponse(ErrorPage("Please complete the reCAPTCHA.")),
                   calls |-> <<>>]
             ELSE IF reply.raises
             THEN [response |-> abort(500), calls |-> posted]
             ELSE IF reply.ok
             THEN IF Succeeded(reply.json)
                  THEN [response |-> VerifiedResponse, calls |-> posted]
                  ELSE [response |->
                            [PageResponse(ErrorPage("reCAPTCHA verification failed."))
                                EXCEPT !.set_cookie = [recaptcha_verified |-> "false"]],
                        calls |-> posted]
             ELSE [response |-> PageResponse(ErrorPage(
                                   "Failed to verify reCAPTCHA. Please try again later.")),
                   calls |-> posted]
    ELSE [response |-> PageResponse(render_template("verification.html",
                                       [RECAPTCHA_SITE_KEY |-> "site-key"])),
          calls |-> <<>>]

\* the response of verify_recaptcha and the calls it makes
VerifyRecaptchaResult(method, form, reply) ==
    IF method = "POST"
    THEN LET token == DictGet(form, "g-recaptcha-response")
             posted == <<Call("requests.post", token, Some(reply))>>
         IN  IF ~Truthy(token)
             THEN [response |-> PageResponse(ErrorPage("Please complete the reCAPTCHA.")),
                   calls |-> <<>>]
             ELSE IF reply.raises
             THEN [response |-> abort(500), calls |-> posted]
             ELSE IF reply.ok
             THEN IF Succeeded(reply.json)
                  THEN [response |-> VerifiedResponse, calls |-> posted]
                  ELSE [response |-> PageResponse(ErrorPage("reCAPTCHA verification failed.")),
                        calls |-> posted]
             ELSE [response |-> PageResponse(ErrorPage(
                                   "Failed to verify reCAPTCHA. Please try again later.")),
                   calls |-> posted]
    ELSE [response |-> PageResponse(render_template("verification.html",
                                       [RECAPTCHA_SITE_KEY |-> "site-key"])),
          calls |-> <<>>]

\* the client keeps the cookies a response sets
StoreCookies(cookies, set_cookie) ==
    [k \in DOMAIN cookies \cup DOMAIN set_cookie |->
        IF k \in DOMAIN set_cookie THEN set_cookie[k] ELSE cookies[k]]

VerifyRecaptcha(method, form, reply) ==
    /\ LET r == VerifyRecaptchaResult(method, form, reply)
       IN  /\ last' = Served("/verify_recaptcha", method, jar, form, r.response, r.calls)
           /\ jar' = StoreCookies(jar, r.response.set_cookie)
    /\ UNCHANGED <<now, reach, feature_model, cache, workers, contacts, cache_log>>

-----------------------------------------------------------------------------
(* Static pages: /how_it_works, /contact, /faq, /about *)

StaticPages ==
    [route : {"/how_it_works"}, template : {"how_it_works.html"}] \cup
    [route : {"/contact"},      template : {"contact.html"}] \cup
    [route : {"/faq"},          template : {"faq.html"}] \cup
    [route : {"/about"},        template : {"about.html"}]

StaticPage(page) ==
    /\ last' = Served(page.route, "GET", jar, EmptyDict,
                      PageResponse(render_template(page.template, EmptyDict)), <<>>)
    /\ UNCHANGED <<now, reach, feature_model, cache, jar, workers, contacts, cache_log>>

-----------------------------------------------------------------------------
(* Contact table: /submit_contact, /view_contacts, /delete_contact/<id> *)

\* ids the table may give out
MaxContactId == 3

\* an INTEGER PRIMARY KEY column: one more than the largest id in the table
NextContactId(rows) ==
    IF rows = {} THEN 1
    ELSE 1 + CHOOSE m \in {r.id : r \in rows} : \A r \in rows : r.id <= m

\* (mutant) the name is stored in the email column and the email as the name
SubmitContactSwapped(form) ==
    /\ IF {"name", "email", "message"} \subseteq DOMAIN form
       THEN /\ Cardinality(contacts) < MaxContacts
            /\ NextContactId(contacts) <= MaxContactId
            /\ contacts' = contacts \cup
                   {[id |-> NextContactId(contacts), name |-> form["email"],
                     email |-> form["name"], message |-> form["message"]]}
            /\ last' = Served("/submit_contact", "POST", jar, form,
                              PageResponse(render_template("contact.html",
                                                           [success |-> TRUE])),
                              <<Call("db.session.add", NextContactId(contacts), None)>>)
       ELSE /\ last' = Served("/submit_contact", "POST", jar, form, abort(400), <<>>)
            /\ UNCHANGED contacts
    /\ UNCHANGED <<now, reach, feature_model, cache, jar, workers, cache_log>>

SubmitContact(form) ==
    /\ IF {"name", "email", "message"} \subseteq DOMAIN form
       THEN /\ Cardinality(contacts) < MaxContacts
            /\ NextContactId(contacts) <= MaxContactId
            /\ contacts' = contacts \cup
                   {[id |-> NextContactId(contacts), name |-> form["name"],
                     email |-> form["email"], message |-> form["message"]]}
            /\ last' = Served("/submit_contact", "POST", jar, form,
                              PageResponse(render_template("contact.html",
                                                           [success |-> TRUE])),
                              <<Call("db.session.add", NextContactId(contacts), None)>>)
       ELSE /\ last' = Served("/submit_contact", "POST", jar, form, abort(400), <<>>)
            /\ UNCHANGED contacts
    /\ UNCHANGED <<now, reach, feature_model, cache, jar, workers, cache_log>>

ViewContacts ==
    /\ last' = Served("/view_contacts", "GET", jar, EmptyDict,
                      PageResponse(render_template("view_contacts.html",
                                                   [contacts |-> contacts])),
                      <<>>)
    /\ UNCHANGED <<now, reach, feature_model, cache, jar, workers, contacts, cache_log>>

\* (mutant) Contact.query.get: a missing row is not reported
DeleteContactNo404(id) ==
    /\ LET found == {r \in contacts : r.id = id}
       IN  /\ contacts' = contacts \ found
           /\ last' = Served("/delete_contact", "POST", jar, [id |-> id],
                             redirect("/view_contacts"),
                             <<Call("db.session.delete", id, None)>>)
    /\ UNCHANGED <<now, reach, feature_model, cache, jar, workers, cache_log>>

\* (mutant) the filter matches every row up to the id
DeleteContactUpTo(id) ==
    /\ LET found == {r \in contacts : r.id = id}
       IN  IF found = {}
           THEN /\ last' = Served("/delete_contact", "POST", jar, [id |-> id],
                                  abort(404), <<>>)
                /\ UNCHANGED contacts
           ELSE /\ contacts' = {r \in contacts : r.id > id}
                /\ last' = Served("/delete_contact", "POST", jar, [id |-> id],
                                  redirect("/view_contacts"),
                                  <<Call("db.session.delete", id, None)>>)
    /\ UNCHANGED <<now, reach, feature_model, cache, jar, workers, cache_log>>

DeleteContact(id) ==
    /\ LET found == {r \in contacts : r.id = id}
       IN  IF found = {}
           THEN /\ last' = Served("/delete_contact", "POST", jar, [id |-> id],
                                  abort(404), <<>>)
                /\ UNCHANGED contacts
           ELSE /\ contacts' = contacts \ found
                /\ last' = Served("/delete_contact", "POST", jar, [id |-> id],
                                  redirect("/view_contacts"),
                                  <<Call("db.session.delete", id, None)>>)
    /\ UNCHANGED <<now, reach, feature_model, cache, jar, workers, cache_log>>

-----------------------------------------------------------------------------
(* Inputs *)

Forms == {EmptyDict} \cup {[url |-> u] : u \in URLs}

TokenForms == {EmptyDict} \cup {("g-recaptcha-response" :> t) : t \in Tokens}

ContactForms ==
    { [name |-> "n", email |-> "e", message |-> "m"],
      [name |-> "n", email |-> "e"],
      [email |-> "e", message |-> "m"] }

\* time and the target site
Environment ==
    \/ Tick
    \/ SiteChange

\* requests to / served by the worker contexts ws
Classification(ws) ==
    \/ \E w \in ws : DetectPhishing(w, "GET", EmptyDict)
    \/ \E w \in ws, form \in Forms : DetectPhishing(w, "POST", form)
    \/ \E w \in ws : LivenessCheck(w)
    \/ \E w \in ws, feature_pred \in Labels : ClassifyAndCache(w, feature_pred)

\* requests to /verify_recaptcha
Gate ==
    \/ VerifyRecaptcha("GET", EmptyDict, CHOOSE r \in SiteverifyReplies : r.raises)
    \/ \E form \in TokenForms, reply \in SiteverifyReplies :
          VerifyRecaptcha("POST", form, reply)

\* the static pages and the contact table
Pages ==
    \/ \E page \in StaticPages : StaticPage(page)
    \/ \E form \in ContactForms : SubmitContact(form)
    \/ ViewContacts
    \/ \E id \in 1..MaxContactId : DeleteContact(id)

\* the whole application
Next == Environment \/ Classification(Workers) \/ Gate \/ Pages

Spec == Init /\ [][Next]_vars

\* the gate and the classification, with requests to / running concurrently
NextClassify == Environment \/ Classification(Workers) \/ Gate

SpecClassify == Init /\ [][NextClassify]_vars

\* every route, with one request to / in flight at a time
NextApp == Environment \/ Classification({1}) \/ Gate \/ Pages

SpecApp == Init /\ [][NextApp]_vars

\* one verified client and a target that answers 200, for every phishing
\* probability the classifier can give
InitThreshold ==
    /\ now = 0
    /\ reach = [raises |-> FALSE, status_code |-> 200]
    /\ feature_model \in {[u \in URLs |-> p] : p \in 0..ProbScale}
    /\ cache = EmptyDict
    /\ jar = [recaptcha_verified |-> "true"]
    /\ workers = [w \in Workers |-> IdleWorker]
    /\ contacts = {}
    /\ last = NoRequest
    /\ cache_log = [u \in URLs |-> <<>>]

NextThreshold == Classification({1})

SpecThreshold == InitThreshold /\ [][NextThreshold]_vars

\* the confidences of every probability, with a target in any condition
InitConfidence ==
    /\ now = 0
    /\ reach \in Outcomes
    /\ feature_model \in {[u \in URLs |-> p] : p \in 0..ProbScale}
    /\ cache = EmptyDict
    /\ jar = [recaptcha_verified |-> "true"]
    /\ workers = [w \in Workers |-> IdleWorker]
    /\ contacts = {}
    /\ last = NoRequest
    /\ cache_log = [u \in URLs |-> <<>>]

NextConfidence == Classification({1})

SpecConfidence == InitConfidence /\ [][NextConfidence]_vars

-----------------------------------------------------------------------------
(* Reading the request served last *)

IsRoot(s) == s.request.route = "/"

SentVerified(s) == IsVerified(s.request.cookies)

\* a POST to / that carries the form field url = u
IsPostFor(s, u) ==
    /\ IsRoot(s)
    /\ s.request.method = "POST"
    /\ DictGet(s.request.form, "url") = Some(u)

Made(s, fn) == \E i \in DOMAIN s.calls : s.calls[i].fn = fn

CountOf(s, fn) == Cardinality({i \in DOMAIN s.calls : s.calls[i].fn = fn})

\* what the call of fn returned
Returned(s, fn) == s.calls[CHOOSE i \in DOMAIN s.calls : s.calls[i].fn = fn].ret

\* the request read an entry from the cache / found none
IsHit(s) == IsRoot(s) /\ Made(s, "cache.get") /\ Returned(s, "cache.get") # None
IsMiss(s) == IsRoot(s) /\ Made(s, "cache.get") /\ Returned(s, "cache.get") = None

\* the liveness GET of a cache miss answered 200
LiveWasOk(s) ==
    /\ Made(s, "requests.get")
    /\ ~Returned(s, "requests.get")[1].raises
    /\ Returned(s, "requests.get")[1].status_code = 200

IsResultPage(page) ==
    /\ page.template = "index.html"
    /\ DOMAIN page.ctx = {"url", "result", "confidence_phishing_feature",
                          "confidence_legitimate_feature"}

SomeUrl == CHOOSE u \in URLs : TRUE

-----------------------------------------------------------------------------
(* C1 *)

\* C1: a verified POST / that misses the cache and whose liveness GET raises
\* or answers another status than 200 is answered Phishing with confidence
\* 100 and 0, and the request calls neither predict nor predict_proba.
C1_FailClosed ==
    (IsMiss(last) /\ SentVerified(last) /\ ~LiveWasOk(last)) =>
        /\ last.response.status = 200
        /\ IsResultPage(last.response.body)
        /\ last.response.body.ctx.url = last.request.form["url"]
        /\ last.response.body.ctx.result = "Phishing"
        /\ last.response.body.ctx.confidence_phishing_feature = 100 * ProbScale
        /\ last.response.body.ctx.confidence_legitimate_feature = 0
        /\ CountOf(last, "requests.get") = 1
        /\ ~Made(last, "predict")
        /\ ~Made(last, "predict_proba")

\* a miss whose liveness GET answered 404 has been served
C1_Witness ==
    /\ IsMiss(last)
    /\ Made(last, "requests.get")
    /\ Returned(last, "requests.get") = Some([raises |-> FALSE, status_code |-> 404])
    /\ last.response.body.ctx.result = "Phishing"

-----------------------------------------------------------------------------
(* C2 *)

\* a request to / for u arrives in this step and is answered in it
AnsweredAtOnce(u) ==
    /\ last' # last
    /\ workers' = workers
    /\ IsPostFor(last', u)
    /\ SentVerified(last')

\* a request to / for u arrives in this step and misses the cache
MissesNow(u) ==
    \E w \in Workers :
        /\ workers[w].pc = "idle"
        /\ workers'[w].pc = "liveness"
        /\ workers'[w].url = u

\* C2 as stated: once a request has written the entry of u, every request
\* for u that arrives less than 3600 seconds after that write is answered
\* with the payload of that write, without liveness GET or classifier call.
C2_IdenticalToFirst ==
    [][\A u \in URLs : \A i \in DOMAIN cache_log[u] :
          /\ ~MissesNow(u)
          /\ AnsweredAtOnce(u) =>
                /\ last'.response.body = cache_log[u][i].value
                /\ ~Made(last', "requests.get")
                /\ ~Made(last', "predict")
                /\ ~Made(last', "predict_proba")]_vars

\* C2 as amended: a request for u that arrives less than 3600 seconds after
\* a write of u's entry is answered with the payload written last for u,
\* which is the payload of that write unless a request that had missed
\* before it has overwritten the entry since; the request makes no liveness
\* GET and no classifier call, and leaves the cache as it is.
C2_CachedWithinHour ==
    [][\A u \in URLs : cache_log[u] # <<>> =>
          /\ ~MissesNow(u)
          /\ AnsweredAtOnce(u) =>
                /\ last'.response = PageResponse(cache_log[u][Len(cache_log[u])].value)
                /\ (Len(cache_log[u]) = 1 =>
                        last'.response.body = cache_log[u][1].value)
                /\ IsHit(last')
                /\ Len(last'.calls) = 1
                /\ cache' = cache]_vars

\* an entry 2400 seconds old is served while the target is down and the
\* classifier was never asked in that request
C2_Witness ==
    /\ \E u \in URLs :
          /\ IsPostFor(last, u)
          /\ Len(cache_log[u]) = 1
          /\ now - cache_log[u][1].at > 0
          /\ last.response.body = cache_log[u][1].value
          /\ last.response.body.ctx.result = "Legitimate"
    /\ IsHit(last)
    /\ reach.raises

-----------------------------------------------------------------------------
(* C3 *)

\* C3: a request to / (GET or POST) whose recaptcha_verified cookie is
\* absent or is not exactly "true" is answered with a redirect to
\* /verify_recaptcha, and makes no cache read, cache write, liveness GET or
\* classifier call.
C3_GateRedirects ==
    [][(last' # last /\ IsRoot(last') /\
        DictGet(last'.request.cookies, "recaptcha_verified") # Some("true")) =>
          /\ last'.response = redirect("/verify_recaptcha")
          /\ last'.calls = <<>>
          /\ cache' = cache
          /\ cache_log' = cache_log
          /\ workers' = workers]_vars

\* a POST / with a URL and the cookie value "false" has been redirected
C3_Witness ==
    /\ IsPostFor(last, SomeUrl)
    /\ last.request.cookies = [recaptcha_verified |-> "false"]
    /\ last.response.status = 302

-----------------------------------------------------------------------------
(* C4 *)

IsGatePost(s) ==
    /\ s.request.route = "/verify_recaptcha"
    /\ s.request.method = "POST"

TokenOf(s) == DictGet(s.request.form, "g-recaptcha-response")

\* a POST /verify_recaptcha with a non-empty token that the verification
\* endpoint answered with an OK status and success = true
GateSucceeded(s) ==
    /\ IsGatePost(s)
    /\ TokenOf(s) \notin {None, Some("")}
    /\ Made(s, "requests.post")
    /\ ~Returned(s, "requests.post")[1].raises
    /\ Returned(s, "requests.post")[1].ok
    /\ DictGet(Returned(s, "requests.post")[1].json, "success") = Some(TRUE)

HoldsVerifiedCookie == DictGet(jar, "recaptcha_verified") = Some("true")

IndexPage(s) ==
    /\ s.response.status = 200
    /\ s.response.body.template = "index.html"
    /\ s.response.location = None

\* C4 as stated: a successful POST /verify_recaptcha sets the cookie
\* recaptcha_verified=true and redirects to /, and every later request of
\* the client to / is answered with the form or a result page, never with a
\* redirect to /verify_recaptcha.
C4_FormOrResult ==
    [][/\ GateSucceeded(last') =>
              /\ last'.response.status = 302
              /\ last'.response.location = Some("/")
              /\ last'.response.set_cookie = [recaptcha_verified |-> "true"]
              /\ HoldsVerifiedCookie'
       /\ HoldsVerifiedCookie => HoldsVerifiedCookie'
       /\ (last' # last /\ IsRoot(last') /\ HoldsVerifiedCookie) =>
              IndexPage(last')]_vars

\* C4 as amended: a successful POST /verify_recaptcha sets the cookie
\* recaptcha_verified=true and redirects to /; every later request of the
\* client to / is never redirected to /verify_recaptcha and is answered by
\* the classification handler with the form or a result page, or with 400
\* Bad Request when it is a POST without the form field url.
C4_GateBypassed ==
    [][/\ GateSucceeded(last') =>
              /\ last'.response.status = 302
              /\ last'.response.location = Some("/")
              /\ last'.response.set_cookie = [recaptcha_verified |-> "true"]
              /\ HoldsVerifiedCookie'
       /\ HoldsVerifiedCookie => HoldsVerifiedCookie'
       /\ (last' # last /\ IsRoot(last') /\ HoldsVerifiedCookie) =>
              /\ last'.response.location = None
              /\ \/ IndexPage(last')
                 \/ /\ last'.response.status = 400
                    /\ last'.request.method = "POST"
                    /\ "url" \notin DOMAIN last'.request.form]_vars

\* a client whose cookie was "false" has passed the gate and got the form
C4_Witness ==
    /\ HoldsVerifiedCookie
    /\ IsRoot(last)
    /\ last.request.method = "GET"
    /\ IndexPage(last)
    /\ last.response.body.ctx = EmptyDict

-----------------------------------------------------------------------------
(* C5 *)

IsLegitimate(s) ==
    /\ IsRoot(s)
    /\ s.response.status = 200
    /\ IsResultPage(s.response.body)
    /\ s.response.body.ctx.result = "Legitimate"

\* C5 as stated: no response for u, served from the cache or not, has label
\* Legitimate at a moment when a liveness check of u would raise or answer
\* another status than 200.
C5_NeverLegitimateWhenDown ==
    [][(last' # last /\ IsLegitimate(last')) =>
          (~reach'.raises /\ reach'.status_code = 200)]_vars

\* C5 as amended: a response with label Legitimate is either served from the
\* cache, where liveness is not checked again, or comes from a cache miss
\* whose own liveness GET answered 200: the request that finds the target
\* unreachable or erroring never classifies it as Legitimate.
C5_LegitimateOnlyAfter200 ==
    IsLegitimate(last) =>
        \/ IsHit(last) /\ ~Made(last, "requests.get")
        \/ IsMiss(last) /\ LiveWasOk(last) /\ Made(last, "predict_proba")

\* a cached Legitimate page is served while the target answers 404
C5_Witness ==
    /\ IsLegitimate(last)
    /\ IsHit(last)
    /\ reach = [raises |-> FALSE, status_code |-> 404]

-----------------------------------------------------------------------------
(* C6 *)

\* C6: on the model path (cache miss, liveness status 200) the phishing
\* confidence is the classifier's phishing probability in percent, and the
\* label is Phishing when it is above 50 and Legitimate when it is 50 or
\* below.
C6_Threshold ==
    (IsMiss(last) /\ LiveWasOk(last)) =>
        LET page == last.response.body
            confidence == page.ctx.confidence_phishing_feature
        IN  /\ IsResultPage(page)
            /\ confidence = 100 * feature_model[last.request.form["url"]]
            /\ confidence \in 0..(100 * ProbScale)
            /\ confidence > 50 * ProbScale => page.ctx.result = "Phishing"
            /\ confidence <= 50 * ProbScale => page.ctx.result = "Legitimate"

\* a phishing confidence of exactly 50 has been labelled Legitimate
C6_Witness ==
    /\ IsMiss(last)
    /\ LiveWasOk(last)
    /\ last.response.body.ctx.confidence_phishing_feature = 50 * ProbScale
    /\ last.response.body.ctx.result = "Legitimate"

-----------------------------------------------------------------------------
(* C7 *)

\* C7: POST /verify_recaptcha sets the cookie only when the verification
\* succeeded. An absent or empty token gives the page that asks to complete
\* the reCAPTCHA, without a call to the verification endpoint; a non-OK
\* status or a result without success = true gives the page that reports the
\* failure, after exactly one call; in both cases no cookie is set and the
\* client's cookies stay as they were.
C7_CookieOnlyOnSuccess ==
    [][/\ IsGatePost(last') =>
            /\ TokenOf(last') \in {None, Some("")} =>
                  /\ last'.response =
                        PageResponse(render_template("verification.html",
                            [error |-> "Please complete the reCAPTCHA."]))
                  /\ last'.calls = <<>>
            /\ TokenOf(last') \notin {None, Some("")} =>
                  /\ Len(last'.calls) = 1
                  /\ CountOf(last', "requests.post") = 1
                  /\ LET reply == Returned(last', "requests.post")[1]
                     IN  /\ (~reply.raises /\ ~reply.ok) =>
                               last'.response =
                                 PageResponse(render_template("verification.html",
                                   [error |-> "Failed to verify reCAPTCHA. Please try again later."]))
                         /\ (~reply.raises /\ reply.ok /\
                             DictGet(reply.json, "success") # Some(TRUE)) =>
                               last'.response =
                                 PageResponse(render_template("verification.html",
                                   [error |-> "reCAPTCHA verification failed."]))
            /\ last'.response.set_cookie # EmptyDict => GateSucceeded(last')
       /\ last'.response.set_cookie # EmptyDict => GateSucceeded(last')
       /\ jar' # jar => (last' # last /\ GateSucceeded(last'))]_vars

\* the endpoint answered OK with success = false: the failure page, no cookie
C7_Witness ==
    /\ IsGatePost(last)
    /\ Made(last, "requests.post")
    /\ Returned(last, "requests.post")[1].json = [success |-> FALSE]
    /\ last.response.body.ctx = [error |-> "reCAPTCHA verification failed."]
    /\ jar = [recaptcha_verified |-> "false"]

-----------------------------------------------------------------------------
(* C8 *)

\* worker w, whose request for u missed the cache, writes u's entry and
\* answers in this step
WritesNow(w, u) ==
    /\ workers[w].pc = "classify"
    /\ workers[w].url = u
    /\ workers'[w].pc = "idle"

\* while the request of w for u was in flight after its miss, another request
\* for u that had missed too wrote u's entry, and was the one served last
Overlapped(w, u) ==
    /\ WritesNow(w, u)
    /\ u \in DOMAIN cache
    /\ IsMiss(last)
    /\ IsPostFor(last, u)

RanAndWrote(s) ==
    /\ CountOf(s, "requests.get") = 1
    /\ CountOf(s, "render_template") = 1
    /\ CountOf(s, "cache.set") = 1

\* C8 as stated: two requests for u that both miss both run the liveness
\* check and the computation and both write key u; the two written values
\* are the same, and the entry left is the one written last.
C8_SameValue ==
    [][\A w \in Workers, u \in URLs : Overlapped(w, u) =>
          /\ RanAndWrote(last) /\ RanAndWrote(last')
          /\ cache[u].value = last.response.body
          /\ cache'[u].value = last'.response.body
          /\ cache'[u].value = cache[u].value]_vars

\* C8 as amended: two requests for u that both miss both run the liveness
\* check and the computation and both write key u; the entry left is the
\* one written last; the two written values are the same when both liveness
\* checks answered 200 or both did not, and may differ otherwise.
C8_LastWriteWins ==
    [][\A w \in Workers, u \in URLs : Overlapped(w, u) =>
          /\ RanAndWrote(last) /\ RanAndWrote(last')
          /\ cache[u].value = last.response.body
          /\ cache'[u] = [value |-> last'.response.body, expires |-> now + 3600]
          /\ IsPostFor(last', u)
          /\ (LiveWasOk(last) <=> LiveWasOk(last')) =>
                cache'[u].value = cache[u].value]_vars

\* two requests that both missed have written different pages for one key
\* within the hour, and the entry is the later page
C8_Witness ==
    \E u \in URLs :
        /\ Len(cache_log[u]) = 2
        /\ cache_log[u][1].value # cache_log[u][2].value
        /\ u \in DOMAIN cache
        /\ cache[u].value = cache_log[u][2].value
        /\ IsMiss(last)
        /\ last.response.body = cache_log[u][2].value

-----------------------------------------------------------------------------
(* C9 *)

\* C9: an entry written for u lives 3600 seconds from its write. It is there
\* and unchanged until then, whatever else the application serves: only a
\* request for u that missed the cache writes it. Once it has expired it is
\* gone, so that a request for u is answered from the cache only while an
\* unexpired entry is there, and a request that misses runs the liveness
\* check (and the classifier on status 200) and writes an entry that expires
\* 3600 seconds later.
C9_LivesOneHour ==
    [][\A u \in URLs :
          \* the write
          /\ (\E w \in Workers : WritesNow(w, u)) =>
                /\ u \in DOMAIN cache'
                /\ cache'[u].expires = now + 3600
                /\ IsMiss(last') /\ IsPostFor(last', u)
                /\ RanAndWrote(last')
                /\ LiveWasOk(last') <=> Made(last', "predict_proba")
          \* the entry stays as it is until it expires
          /\ (u \in DOMAIN cache /\ ~(\E w \in Workers : WritesNow(w, u))) =>
                IF cache[u].expires >= now'
                THEN u \in DOMAIN cache' /\ cache'[u] = cache[u]
                ELSE u \notin DOMAIN cache'
          /\ (u \notin DOMAIN cache /\ ~(\E w \in Workers : WritesNow(w, u))) =>
                u \notin DOMAIN cache'
          \* without an unexpired entry the request is a miss
          /\ AnsweredAtOnce(u) =>
                /\ u \in DOMAIN cache
                /\ now <= cache[u].expires
                /\ now >= cache[u].expires - 3600]_vars

\* the entry of u was served from the cache, has expired since, and the next
\* request for u has missed and is checking liveness
C9_Witness ==
    \E u \in URLs :
        /\ IsHit(last)
        /\ IsPostFor(last, u)
        /\ u \notin DOMAIN cache
        /\ workers[1].pc = "liveness"
        /\ workers[1].url = u
        /\ contacts # {}

-----------------------------------------------------------------------------
(* C10 *)

\* C10: the cache is keyed by the raw submitted string. The page stored
\* under key k was rendered for url = k, and a request for the string u is
\* answered, from the cache or not, with a page rendered for u and never
\* with the entry of another string of the same URL.
C10_RawKey ==
    /\ DOMAIN cache \subseteq URLs
    /\ \A k \in DOMAIN cache :
          /\ IsResultPage(cache[k].value)
          /\ cache[k].value.ctx.url = k
    /\ \A u \in URLs : (IsPostFor(last, u) /\ last.response.status = 200) =>
          /\ IsResultPage(last.response.body)
          /\ last.response.body.ctx.url = u
          /\ Returned(last, "cache.get") \in {None, Some(last.response.body)}

\* the two strings of the URL have an entry each, with different results,
\* and the request served last was answered from the entry of its string
C10_Witness ==
    /\ DOMAIN cache = URLs
    /\ cache["http://a.test"].value.ctx.result = "Legitimate"
    /\ cache["http://a.test/"].value.ctx.result = "Phishing"
    /\ IsHit(last)
    /\ IsPostFor(last, "http://a.test/")
    /\ last.response.body = cache["http://a.test/"].value

-----------------------------------------------------------------------------
(* Reading the contact routes *)

ContactIds(rows) == {r.id : r \in rows}

\* the request served in this step is POST /delete_contact/<id>
DeletesNow(id) ==
    /\ last'.request.route = "/delete_contact"
    /\ last'.request.form = [id |-> id]
    /\ last' # last \/ contacts' # contacts

\* the request served in this step is POST /submit_contact
SubmitsNow ==
    /\ last'.request.route = "/submit_contact"
    /\ last' # last \/ contacts' # contacts

-----------------------------------------------------------------------------
(* C11 *)

\* C11: POST /delete_contact/<id> for an id that no row of the table has is
\* answered 404 Not Found and leaves the rows as they are.
C11_DeleteMissing ==
    [][\A id \in 1..(MaxContactId + 1) :
          (DeletesNow(id) /\ id \notin ContactIds(contacts)) =>
              /\ last'.response = abort(404)
              /\ last'.calls = <<>>
              /\ contacts' = contacts]_vars

\* the table holds a row, and the delete of another id was answered 404
C11_Witness ==
    /\ last.request.route = "/delete_contact"
    /\ last.response.status = 404
    /\ contacts # {}
    /\ last.request.form["id"] \notin ContactIds(contacts)

-----------------------------------------------------------------------------
(* C12 *)

-----------------------------------------------------------------------------
(* C13 *)

\* C13: POST /submit_contact with name, email and message inserts exactly
\* one row with those values under an id that no row of the table has, and
\* leaves the other rows as they are; without one of the fields it inserts
\* nothing. A row that is in the table stays as it is, with its name, email
\* and message, until delete_contact is asked to delete its id.
C13_SubmitInserts ==
    [][/\ SubmitsNow =>
             LET form == last'.request.form
             IN  IF {"name", "email", "message"} \subseteq DOMAIN form
                 THEN \E r \in contacts' :
                         /\ r.id \notin ContactIds(contacts)
                         /\ r.name = form["name"]
                         /\ r.email = form["email"]
                         /\ r.message = form["message"]
                         /\ contacts' = contacts \cup {r}
                         /\ Cardinality(contacts') = Cardinality(contacts) + 1
                         /\ last'.response.status = 200
                 ELSE /\ contacts' = contacts
                      /\ last'.response.status = 400
       /\ \A r \in contacts :
             \/ r \in contacts'
             \/ /\ DeletesNow(r.id)
                /\ r.id \notin ContactIds(contacts')]_vars

\* a second row was inserted beside the first
C13_Witness ==
    /\ last.request.route = "/submit_contact"
    /\ last.response.status = 200
    /\ contacts = { [id |-> 1, name |-> "n", email |-> "e", message |-> "m"],
                    [id |-> 2, name |-> "n", email |-> "e", message |-> "m"] }

-----------------------------------------------------------------------------
(* C14 *)

\* C14: the result of a verified POST / that missed the cache carries two
\* confidences between 0 and 100 whose sum is 100: after a liveness GET that
\* answered 200 they are the two probabilities of predict_proba times 100,
\* and otherwise they are 100 and 0.
C14_ConfidencesSumTo100 ==
    (IsMiss(last) /\ SentVerified(last)) =>
        LET ctx == last.response.body.ctx
        IN  /\ IsResultPage(last.response.body)
            /\ ctx.confidence_phishing_feature + ctx.confidence_legitimate_feature
                  = 100 * ProbScale
            /\ ctx.confidence_phishing_feature \in 0..(100 * ProbScale)
            /\ ctx.confidence_legitimate_feature \in 0..(100 * ProbScale)
            /\ IF LiveWasOk(last)
               THEN LET proba == Returned(last, "predict_proba")[1]
                    IN  /\ proba = predict_proba(feature_model, ctx.url)
                        /\ ctx.confidence_phishing_feature = proba[1] * 100
                        /\ ctx.confidence_legitimate_feature = proba[2] * 100
               ELSE /\ ctx.confidence_phishing_feature = 100 * ProbScale
                    /\ ctx.confidence_legitimate_feature = 0

\* the classifier gave unequal probabilities, both above zero
C14_Witness ==
    /\ IsMiss(last)
    /\ LiveWasOk(last)
    /\ last.response.body.ctx.confidence_phishing_feature > 0
    /\ last.response.body.ctx.confidence_legitimate_feature
          > last.response.body.ctx.confidence_phishing_feature

-----------------------------------------------------------------------------
(* C15 *)

\* the names of the calls a request has made, in their order
CallOrder(s) == [i \in DOMAIN s.calls |-> s.calls[i].fn]

Redirected(s) == s.response = redirect("/verify_recaptcha") /\ s.calls = <<>>

EmptyForm(s) ==
    /\ s.response = PageResponse(render_template("index.html", EmptyDict))
    /\ s.calls = <<>>

CachedHit(s) ==
    /\ CallOrder(s) = <<"cache.get">>
    /\ s.calls[1].ret # None
    /\ s.response = PageResponse(s.calls[1].ret[1])

Rendered(s) ==
    /\ Len(s.calls) > 1
    /\ s.calls[1] = Call("cache.get", s.request.form["url"], None)
    /\ CallOrder(s) =
          IF LiveWasOk(s)
          THEN <<"cache.get", "requests.get", "predict", "predict_proba",
                 "render_template", "cache.set">>
          ELSE <<"cache.get", "requests.get", "render_template", "cache.set">>
    /\ s.response.status = 200
    /\ IsResultPage(s.response.body)
    /\ s.calls[Len(s.calls)].ret = Some(s.response.body)

BadRequest(s) == s.response = abort(400) /\ s.calls = <<>>

\* the outcome that the order of detect_phishing gives the request
OutcomeInOrder(s, outcomes) ==
    /\ Cardinality({o \in DOMAIN outcomes : outcomes[o]}) = 1
    /\ ~SentVerified(s) => outcomes["redirect"]
    /\ (SentVerified(s) /\ s.request.method # "POST") => outcomes["form"]
    /\ (SentVerified(s) /\ s.request.method = "POST"
           /\ "url" \in DOMAIN s.request.form) =>
          outcomes["hit"] \/ outcomes["rendered"]

\* C15 as stated: a request to / ends in exactly one of redirect, empty
\* form, cached hit and rendered result, in the order of the handler.
C15_FourOutcomes ==
    IsRoot(last) =>
        OutcomeInOrder(last, [redirect |-> Redirected(last),
                              form     |-> EmptyForm(last),
                              hit      |-> CachedHit(last),
                              rendered |-> Rendered(last)])

\* C15 as amended: a request to / ends in exactly one of redirect
\* (unverified), empty form (verified, not a POST; no call), 400 Bad Request
\* (verified POST without the field url; no call), cached hit (cache.get is
\* the only call) and rendered result. A request that renders has called
\* cache.get, then requests.get, then predict and predict_proba if and only
\* if requests.get answered 200, then render_template, then cache.set once
\* with the page it returns.
C15_FiveOutcomes ==
    IsRoot(last) =>
        /\ OutcomeInOrder(last, [redirect |-> Redirected(last),
                                 form     |-> EmptyForm(last),
                                 bad      |-> BadRequest(last),
                                 hit      |-> CachedHit(last),
                                 rendered |-> Rendered(last)])
        /\ BadRequest(last) =>
              /\ SentVerified(last)
              /\ last.request.method = "POST"
              /\ "url" \notin DOMAIN last.request.form

\* a result was rendered and written after a liveness GET that raised
C15_Witness ==
    /\ IsRoot(last)
    /\ Rendered(last)
    /\ Returned(last, "requests.get")[1].raises
    /\ Len(last.calls) = 4

-----------------------------------------------------------------------------
(* C16 *)

\* the page of a target that raised or answered another status than 200
FailClosedPage(u) == ResultPage(u, UnreachableVerdict)

\* C16 as stated: once the fail-closed page of u has been written, every
\* request for u that arrives less than 3600 seconds after that write is
\* answered with it, without a liveness GET.
C16_AlwaysFailClosed ==
    [][\A u \in URLs : \A i \in DOMAIN cache_log[u] :
          cache_log[u][i].value = FailClosedPage(u) =>
              /\ ~MissesNow(u)
              /\ AnsweredAtOnce(u) =>
                    /\ last'.response.body = FailClosedPage(u)
                    /\ ~Made(last', "requests.get")]_vars

\* C16 as amended: a request for u that arrives less than 3600 seconds
\* after a write of the fail-closed page of u makes no liveness GET and no
\* classifier call, whatever the target answers by then, and it is answered
\* with the fail-closed page unless a request that had missed before that
\* write has overwritten the entry since.
C16_FailClosedCached ==
    [][\A u \in URLs : \A i \in DOMAIN cache_log[u] :
          cache_log[u][i].value = FailClosedPage(u) =>
              /\ ~MissesNow(u)
              /\ AnsweredAtOnce(u) =>
                    /\ CallOrder(last') = <<"cache.get">>
                    /\ (i = Len(cache_log[u]) =>
                            last'.response = PageResponse(FailClosedPage(u)))]_vars

\* the fail-closed page, 2400 seconds old, is served for a target that
\* answers 200 and that the classifier finds legitimate
C16_Witness ==
    \E u \in URLs :
        /\ IsPostFor(last, u)
        /\ IsHit(last)
        /\ last.response.body = FailClosedPage(u)
        /\ cache_log[u] # <<>>
        /\ now - cache_log[u][Len(cache_log[u])].at > 0
        /\ IsLive(reach)
        /\ ModelVerdict(feature_model, u, 1).result = "Legitimate"

-----------------------------------------------------------------------------
(* C17 *)

IsGateRequest(s) == s.request.route = "/verify_recaptcha"

\* C17: no response of any route sets the cookie recaptcha_verified to
\* another value than "true" or takes it away. A client that holds the
\* cookie "true" holds it after every step; a GET /verify_recaptcha, or a
\* POST /verify_recaptcha that does not succeed, sets no cookie and leaves
\* the client's cookies as they are, and the request to / that follows it
\* is not redirected to /verify_recaptcha.
C17_NeverRevoked ==
    [][/\ last'.response.set_cookie \in {EmptyDict, [recaptcha_verified |-> "true"]}
       /\ HoldsVerifiedCookie => HoldsVerifiedCookie'
       /\ (last' # last /\ IsGateRequest(last') /\ ~GateSucceeded(last')) =>
              /\ last'.response.set_cookie = EmptyDict
              /\ jar' = jar
       /\ (last' # last /\ IsRoot(last') /\ IsGateRequest(last)
              /\ SentVerified(last)) =>
              /\ last'.response # redirect("/verify_recaptcha")
              /\ last'.response.status # 302
              /\ SentVerified(last')]_vars

\* a verified client has posted a token that the verification endpoint
\* rejected, and still holds the cookie
C17_Witness ==
    /\ IsGatePost(last)
    /\ SentVerified(last)
    /\ Made(last, "requests.post")
    /\ ~GateSucceeded(last)
    /\ last.response.status = 200
    /\ HoldsVerifiedCookie

-----------------------------------------------------------------------------
(* C18 *)

\* C18: on the model path the label is Phishing exactly when the phishing
\* probability of predict_proba times 100 is above the threshold, and the
\* label that predict returned has no part in the step: whichever label
\* predict returns, the step gives the same response, the same cache entry
\* and the same state.
C18_PredictIgnored ==
    [][\A w \in Workers : \A feature_pred \in Labels :
          ClassifyAndCache(w, feature_pred) =>
              /\ \A other \in Labels : ClassifyAndCache(w, other)
              /\ LiveWasOk(last') =>
                    /\ Made(last', "predict")
                    /\ (last'.response.body.ctx.result = "Phishing") <=>
                          (Returned(last', "predict_proba")[1][1] * 100
                               > threshold * ProbScale)
                    /\ cache'[last'.request.form["url"]].value = last'.response.body]_vars

\* the classifier was asked and the page says Phishing by the probability
C18_Witness ==
    /\ IsMiss(last)
    /\ LiveWasOk(last)
    /\ Made(last, "predict")
    /\ Returned(last, "predict_proba")[1][1] * 100 > threshold * ProbScale
    /\ last.response.body.ctx.result = "Phishing"
    /\ last.request.form["url"] \in DOMAIN cache

====
